---------------------------- MODULE Spec2Model ----------------------------
(***************************************************************************)
(* Webhook receiver that relays withdrawal events to a chat endpoint.      *)
(* Three variants of the ingress handler are modelled:                     *)
(*   "none"  - src/unnamed/part_000           (no deduplication)           *)
(*   "set"   - src/webhook.js lines 1-177     (in-process Set + trim)      *)
(*   "redis" - src/webhook.js lines 178-358   (external store, 900 s TTL)  *)
(*                                                                         *)
(* JavaScript strings that the code inspects (type, description, mint) are *)
(* sequences of one-character strings, so that toLowerCase, includes and   *)
(* slice are computed.  A JavaScript object is a record; a field the       *)
(* object does not have is a field missing from the record's DOMAIN.       *)
(* A handler runs on the single JavaScript thread: it keeps the thread     *)
(* (running) from one await to the next, and only there do other handlers  *)
(* and the timer callback get to run.                                      *)
(* SpecDecode runs decodeWebhookEvent on its own, on every list of up to   *)
(* MaxTransfers token transfers.                                           *)
(***************************************************************************)
EXTENDS Integers, Sequences, FiniteSets, TLC

\* ------------------------------------------------------------------ bounds
MaxRequests == 2      \* webhook requests that arrive in one behaviour
MaxBatch    == 2      \* events in one request body
MaxEvents   == 4      \* events in all request bodies together
MaxStoreEvents == 2   \* the same, external store variant (three awaits per event)
MaxTransfers == 3     \* token transfers of an event handed to the decoder on its own
TickSeconds == 450    \* granularity of the clock

\* --------------------------------------------------------------- constants
\* MAX_CACHE_SIZE is 1000 in the source; the model keeps the comparison and
\* the slice and scales the number so that the set can exceed it.
MAX_CACHE_SIZE == 2
\* { ex: 900 } of both redis.set calls
TTL_SECONDS == 900

Variants == {"none", "set", "redis"}
Requests == 1..MaxRequests
Sigs     == {"sig1", "sig2", "sig3"}

\* ----------------------------------------------------------------- strings
UpperLetters == <<"A","B","C","D","E","F","G","H","I","J","K","L","M","N","O","P","Q","R","S","T","U","V","W","X","Y","Z">>
LowerLetters == <<"a","b","c","d","e","f","g","h","i","j","k","l","m","n","o","p","q","r","s","t","u","v","w","x","y","z">>

\* String.prototype.toLowerCase, on the ASCII letters
toLowerCase(str) ==
  [i \in 1..Len(str) |->
     IF \E k \in 1..26 : UpperLetters[k] = str[i]
       THEN LowerLetters[CHOOSE k \in 1..26 : UpperLetters[k] = str[i]]
       ELSE str[i]]

\* String.prototype.includes
includes(str, search) ==
  \E i \in 0..(Len(str) - Len(search)) : SubSeq(str, i + 1, i + Len(search)) = search

\* String.prototype.slice(start, end) and Array.prototype.slice(start, end),
\* 0-based, end exclusive, a negative index counted from the end
SliceIndex(n, k) == IF k < 0 THEN (IF n + k < 0 THEN 0 ELSE n + k)
                    ELSE (IF k > n THEN n ELSE k)
slice(s, start, end) == SubSeq(s, SliceIndex(Len(s), start) + 1, SliceIndex(Len(s), end))

WITHDRAW == <<"w","i","t","h","d","r","a","w">>
ELLIPSIS == <<".",".",".">>

\* ------------------------------------------------------------ known tokens
USDC_MINT == <<"E","P","j","F","W","d","d","5","A","u","f","q","S","S","q","e","M","2","q","N","1","x","z","y","b","a","p","C","8","G","4","w","E","G","G","k","Z","w","y","T","D","t","1","v">>
PYUSD_MINT == <<"2","b","1","k","V","6","D","k","P","A","n","x","d","5","i","x","f","n","x","C","p","j","x","m","K","w","q","j","j","a","Y","m","C","Z","f","H","s","F","u","2","4","G","X","o">>
KPUSD_USDC_MINT == <<"3","8","w","Q","F","R","u","j","6","F","e","z","z","G","Y","e","g","z","H","d","q","r","R","K","7","h","k","E","k","B","x","7","w","S","q","x","D","B","Y","X","p","K","p","y">>

KNOWN_TOKENS ==
  (USDC_MINT :> <<"U","S","D","C">>) @@
  (PYUSD_MINT :> <<"P","Y","U","S","D">>) @@
  (KPUSD_USDC_MINT :> <<"k","P","U","S","D","-","U","S","D","C">>)

\* mints outside the table: a long one and one shorter than 8 characters
WSOL_MINT == <<"S","o","1","1","1","1","1","1","1","1","1","1","1","1","1","1","1","1","1","1","1","1","1","1","1","1","1","1","1","1","1","1","1","1","1","1","1","1","1","1","1","1","2">>
SHORT_MINT == <<"M","i","n","t","5">>

\* ------------------------------------------------------------------ events
Has(obj, field) == field \in DOMAIN obj

\* (event.type || ''), (event.description || ''): an absent and an empty
\* string are both falsy
TypeOrEmpty(event) == IF Has(event, "type") THEN event.type ELSE <<>>
DescriptionOrEmpty(event) == IF Has(event, "description") THEN event.description ELSE <<>>

\* the withdrawal filter of the three handlers
\* (fault: the filter without the toLowerCase calls)
IsWithdrawalCaseSensitive(event) ==
  \/ includes(TypeOrEmpty(event), WITHDRAW)
  \/ includes(DescriptionOrEmpty(event), WITHDRAW)
IsWithdrawal(event) ==
  \/ includes(toLowerCase(TypeOrEmpty(event)), WITHDRAW)
  \/ includes(toLowerCase(DescriptionOrEmpty(event)), WITHDRAW)

\* new Date(seconds * 1000).toISOString(): the UTC calendar fields of the
\* instant (the millisecond field is 0 for whole seconds)
ToISOString(seconds) ==
  LET days == seconds \div 86400
      rem  == seconds % 86400
      z    == days + 719468
      era  == z \div 146097
      doe  == z - era * 146097
      yoe  == (doe - doe \div 1460 + doe \div 36524 - doe \div 146096) \div 365
      doy  == doe - (365 * yoe + yoe \div 4 - yoe \div 100)
      mp   == (5 * doy + 2) \div 153
      m    == IF mp < 10 THEN mp + 3 ELSE mp - 9
      y    == yoe + era * 400 + (IF m <= 2 THEN 1 ELSE 0)
  IN  [year |-> y, month |-> m, day |-> doy - (153 * mp + 2) \div 5 + 1,
       hour |-> rem \div 3600, minute |-> (rem % 3600) \div 60,
       second |-> rem % 60, ms |-> 0]

\* KNOWN_TOKENS is an object literal, so KNOWN_TOKENS[name] also finds the
\* members it inherits from Object.prototype; all of them are truthy
OBJECT_PROTOTYPE ==
  {<<"c","o","n","s","t","r","u","c","t","o","r">>,
   <<"t","o","S","t","r","i","n","g">>,
   <<"v","a","l","u","e","O","f">>,
   <<"_","_","p","r","o","t","o","_","_">>}
\* stands for such a member (a function or an object, not a string)
INHERITED_MEMBER == <<"[","i","n","h","e","r","i","t","e","d","]">>

\* KNOWN_TOKENS[transfer.mint] || `${transfer.mint.slice(0, 8)}...`
TokenSymbol(mint) ==
  IF mint \in DOMAIN KNOWN_TOKENS THEN KNOWN_TOKENS[mint]
  ELSE IF mint \in OBJECT_PROTOTYPE THEN INHERITED_MEMBER
  ELSE slice(mint, 0, 8) \o ELLIPSIS

\* decodeWebhookEvent throws a RangeError from toISOString when the event
\* has no timestamp (new Date(NaN)), and a TypeError from transfer.mint.slice
\* when the first transfer has no mint
\* (fault: a decoder that guards every field)
DecodeThrowsNever(event) == FALSE
DecodeThrows(event) ==
  \/ ~Has(event, "timestamp")
  \/ /\ Has(event, "tokenTransfers")
     /\ Len(event.tokenTransfers) > 0
     /\ ~Has(event.tokenTransfers[1], "mint")

FieldOr(obj, field, default) == IF Has(obj, field) THEN obj[field] ELSE default

\* the withdrawal detail: the first transfer only, or null
WithdrawalOf(event) ==
  LET tokenTransfers == IF Has(event, "tokenTransfers") THEN event.tokenTransfers ELSE <<>>
  IN  IF Len(tokenTransfers) > 0
        THEN LET transfer == tokenTransfers[1]
             IN  [isNull |-> FALSE,
                  from   |-> FieldOr(transfer, "fromUserAccount", "undefined"),
                  to     |-> FieldOr(transfer, "toUserAccount", "undefined"),
                  token  |-> TokenSymbol(transfer.mint),
                  amount |-> FieldOr(transfer, "tokenAmount", -1),
                  mint   |-> transfer.mint]
        ELSE [isNull |-> TRUE]

\* the summary returned when DecodeThrows is false; fee / 1e9 is kept exact
\* as whole SOL and the remaining lamports
decodeWebhookEvent(event) ==
  [signature  |-> event.signature,
   timestamp  |-> ToISOString(event.timestamp),
   type       |-> IF TypeOrEmpty(event) = <<>> THEN <<"U","N","K","N","O","W","N">> ELSE event.type,
   source     |-> IF FieldOr(event, "source", <<>>) = <<>> THEN <<"U","n","k","n","o","w","n">> ELSE event.source,
   withdrawal |-> WithdrawalOf(event),
   fee        |-> [sol |-> event.fee \div 1000000000, lamports |-> event.fee % 1000000000]]

\* ------------------------------------------------------- inbound events
TransferUsdc == [fromUserAccount |-> "A", toUserAccount |-> "B", mint |-> USDC_MINT, tokenAmount |-> 10]
TransferWsol == [fromUserAccount |-> "C", toUserAccount |-> "D", mint |-> WSOL_MINT, tokenAmount |-> 7]
TransferNoMint == [fromUserAccount |-> "A", toUserAccount |-> "B", tokenAmount |-> 10]
TransferShort == [fromUserAccount |-> "E", toUserAccount |-> "F", mint |-> SHORT_MINT, tokenAmount |-> 3]
TransferNamed == [fromUserAccount |-> "G", toUserAccount |-> "H",
                  mint |-> <<"c","o","n","s","t","r","u","c","t","o","r">>, tokenAmount |-> 1]

\* matches by type (upper case), decodes
EventWithdraw(s) ==
  [signature |-> s, timestamp |-> 1700000000, fee |-> 5000000,
   type |-> <<"W","I","T","H","D","R","A","W","_","S","O","L">>,
   tokenTransfers |-> <<TransferUsdc, TransferWsol>>]
\* matches by description only, no transfers
EventDescribed(s) ==
  [signature |-> s, timestamp |-> 1700000000, fee |-> 5000000,
   type |-> <<"T","R","A","N","S","F","E","R">>,
   description |-> <<"U","s","e","r"," ","W","i","t","h","d","r","a","w","s">>]
\* matches nowhere
EventDeposit(s) ==
  [signature |-> s, timestamp |-> 1700000000, fee |-> 5000000,
   type |-> <<"D","E","P","O","S","I","T">>,
   description |-> <<"w","i","t","h","d","r","e","w">>,
   tokenTransfers |-> <<TransferUsdc>>]
\* matches, first transfer has no mint
EventNoMint(s) ==
  [signature |-> s, timestamp |-> 1700000000, fee |-> 5000000,
   type |-> <<"w","i","t","h","d","r","a","w">>,
   tokenTransfers |-> <<TransferNoMint, TransferUsdc>>]
\* matches, no timestamp
EventNoTimestamp(s) ==
  [signature |-> s, fee |-> 5000000,
   type |-> <<"W","I","T","H","D","R","A","W","_","S","O","L">>,
   tokenTransfers |-> <<TransferWsol>>]

\* the event objects a sender may put in a batch, by name: three signatures,
\* one of them in a matching, a non-matching and an undecodable event
Payload ==
  [withdraw1    |-> EventWithdraw("sig1"),
   deposit1     |-> EventDeposit("sig1"),
   nomint1      |-> EventNoMint("sig1"),
   described2   |-> EventDescribed("sig2"),
   notimestamp2 |-> EventNoTimestamp("sig2"),
   deposit3     |-> EventDeposit("sig3")]
Events == DOMAIN Payload

NoEvent == "none"

\* ------------------------------------------------------------------- state
VARIABLES
  variant,     \* which of the three handlers this deployment runs
  running,     \* the request whose handler is on the JavaScript thread, or 0
  pc,          \* per request: idle, loop, get, set, send, done, threw
  len,         \* per request: events.length
  idx,         \* per request: events already taken by the for loop
  cur,         \* per request: the loop variable event (a name of Payload)
  outcome,    \* per request: how the handling of its latest finished event ended
  acks,        \* per request: res.status(200).json({received: true}) calls
  processed,   \* processedTransactions, in insertion order
  store,       \* external store: per signature the seconds tx:<signature> has left to live, 0 when absent
  attempts,    \* per signature: fetch calls made by sendTelegramMessage
  evicted,     \* signatures the trim has discarded
  expired,     \* signatures whose key has expired
  overlapped,  \* a request arrived while another was in flight
  sinceWrite,  \* per signature: seconds since redis.set last wrote its key, counted up to TTL_SECONDS
  toKeep,      \* the array toKeep of the timer callback, from clear() to the re-fill
  failed,      \* signatures recorded and then not notified (decode threw or delivery failed)
  input,       \* the event handed to decodeWebhookEvent when the decoder is run on its own
  decoded      \* what that call did: ready, returned (with its value), threw

vars == <<variant, running, pc, len, idx, cur, outcome, acks, processed,
          store, attempts, evicted, expired, overlapped, sinceWrite, toKeep,
          failed, input, decoded>>

\* the timer callback on the JavaScript thread
TimerThread == MaxRequests + 1

Range(seq) == {seq[i] : i \in 1..Len(seq)}

InFlight(h) == pc[h] \in {"loop", "get", "set", "send"}
Terminated(h) == pc[h] \in {"done", "threw"}

\* no request has arrived, both stores are empty
Quiet ==
  /\ running = 0
  /\ pc = [h \in Requests |-> "idle"]
  /\ len = [h \in Requests |-> 0]
  /\ idx = [h \in Requests |-> 0]
  /\ cur = [h \in Requests |-> NoEvent]
  /\ outcome = [h \in Requests |-> "none"]
  /\ acks = [h \in Requests |-> 0]
  /\ processed = <<>>
  /\ store = [s \in Sigs |-> 0]
  /\ attempts = [s \in Sigs |-> 0]
  /\ evicted = {}
  /\ expired = {}
  /\ overlapped = FALSE
  /\ sinceWrite = [s \in Sigs |-> TTL_SECONDS]
  /\ toKeep = <<>>
  /\ failed = {}

Init ==
  /\ variant \in Variants
  /\ Quiet
  /\ input = Payload.described2
  /\ decoded = [state |-> "ready"]

\* ------------------------------------------------------ deduplication store
\* processedTransactions.has(signature)
\* (fault: a lookup that never finds the signature)
SetHasNever(set, signature) == FALSE
SetHas(set, signature) == signature \in Range(set)

\* processedTransactions.add(signature): a Set keeps the insertion order and
\* the place of an element it already holds
\* (fault: the record step left out)
SetAddNothing(set, signature) == set
SetAdd(set, signature) == IF signature \in Range(set) THEN set ELSE Append(set, signature)

\* toKeep.forEach(sig => processedTransactions.add(sig))
RECURSIVE AddAll(_, _)
AddAll(set, sigs) == IF sigs = <<>> THEN set ELSE AddAll(SetAdd(set, Head(sigs)), Tail(sigs))

\* Array.from(processedTransactions).slice(-MAX_CACHE_SIZE)
\* (fault: slice(0, MAX_CACHE_SIZE), which keeps the oldest)
ToKeepOldest(set) == slice(set, 0, MAX_CACHE_SIZE)
ToKeep(set) == slice(set, -MAX_CACHE_SIZE, Len(set))

\* redis.get(`tx:${signature}`) resolving: the key is there until it expires
\* (fault: a lookup that never finds the key)
RedisExistsNever(kv, signature) == FALSE
RedisExists(kv, signature) == kv[signature] > 0
\* redis.set(key, '1', { ex: 900 }) applied by the store
\* (fault: the record step left out)
RedisSetNothing(kv, signature) == kv
RedisSet(kv, signature) == [kv EXCEPT ![signature] = TTL_SECONDS]
\* the store after d more seconds
\* (fault: a store that never expires a key)
RedisNeverExpires(kv, d) == kv
RedisAfter(kv, d) == [s \in DOMAIN kv |-> IF kv[s] > d THEN kv[s] - d ELSE 0]

\* whether the loop body of the variant sits in a try/catch
\* (fault: the external store variant without its try/catch)
CaughtNowhere(v) == FALSE
Caught(v) == v = "redis"

\* sendTelegramMessage(message) for the three ways the fetch can end: "ok",
\* "notok" (the API answers ok: false), "error" (fetch or response.json
\* rejects).  Everything after the url is inside its try/catch.
SendOutcomes == {"ok", "notok", "error"}
\* (fault: sendTelegramMessage without its try/catch)
SendThrowsOnError(o) == o = "error"
SendThrows(o) == FALSE
\* what the notifier logs
SendLogs(o) == IF o = "ok" THEN "sent" ELSE "send_failed"

\* ----------------------------------------------------------------- actions
\* the signatures whose notification failed after the record step, one more;
\* the no-dedup variant has no record step
WithFailure(sigs, signature) == IF variant = "none" THEN sigs ELSE sigs \cup {signature}

\* what an exception thrown in the loop body does to request h: the catch of
\* the loop body logs it and the loop goes on, or the async handler rejects
Raise(h, what) ==
  /\ outcome' = [outcome EXCEPT ![h] = what]
  /\ pc' = [pc EXCEPT ![h] = IF Caught(variant) THEN "loop" ELSE "threw"]
  /\ running' = IF Caught(variant) THEN h ELSE 0

\* the handling of the current event ends and the loop goes on, synchronously
Continue(h, what) ==
  /\ outcome' = [outcome EXCEPT ![h] = what]
  /\ pc' = [pc EXCEPT ![h] = "loop"]
  /\ running' = h

\* decodeWebhookEvent, formatTelegramMessage, then sendTelegramMessage up to
\* its await fetch(...): one delivery attempt, the handler is suspended
\* (fault: sendTelegramMessage(message) called without await, so that the loop
\* goes on while the delivery is in flight)
DecodeFormatSendDetached(h) ==
  IF DecodeThrows(Payload[cur'[h]])
    THEN /\ Raise(h, "decode_threw")
         /\ attempts' = attempts
         /\ failed' = WithFailure(failed, Payload[cur'[h]].signature)
    ELSE /\ attempts' = [attempts EXCEPT ![Payload[cur'[h]].signature] = @ + 1]
         /\ pc' = [pc EXCEPT ![h] = "loop"]
         /\ running' = h
         /\ outcome' = [outcome EXCEPT ![h] = "pending"]
         /\ failed' = failed
DecodeFormatSend(h) ==
  IF DecodeThrows(Payload[cur'[h]])
    THEN /\ Raise(h, "decode_threw")
         /\ attempts' = attempts
         /\ failed' = WithFailure(failed, Payload[cur'[h]].signature)
    ELSE /\ attempts' = [attempts EXCEPT ![Payload[cur'[h]].signature] = @ + 1]
         /\ pc' = [pc EXCEPT ![h] = "send"]
         /\ running' = 0
         /\ outcome' = [outcome EXCEPT ![h] = "pending"]
         /\ failed' = failed

RECURSIVE TotalLen(_, _)
TotalLen(lens, k) == IF k = 0 THEN 0 ELSE lens[k] + TotalLen(lens, k - 1)

\* the sender stops after this many events
EventBudget(v) == IF v = "redis" THEN MaxStoreEvents ELSE MaxEvents

\* a request arrives: express calls the handler, which runs to its first await
\* whether the variant answers the sender before it handles the events
\* (fault: every variant answering first)
AckFirstAlways(v) == TRUE
AckFirst(v) == v = "set"
Arrive(h, n) ==
  /\ running = 0
  /\ pc[h] = "idle"
  /\ \A g \in Requests : g < h => pc[g] # "idle"
  /\ TotalLen(len, MaxRequests) + n <= EventBudget(variant)
  /\ pc' = [pc EXCEPT ![h] = "loop"]
  /\ len' = [len EXCEPT ![h] = n]
  /\ running' = h
  /\ acks' = IF AckFirst(variant) THEN [acks EXCEPT ![h] = @ + 1] ELSE acks
  /\ overlapped' = (overlapped \/ \E g \in Requests : InFlight(g))
  /\ UNCHANGED <<variant, idx, cur, outcome, processed, store, attempts,
                 evicted, expired, sinceWrite, toKeep, failed, input, decoded>>

\* one iteration of the for loop, no-dedup variant
ExamineNone(h, e) ==
  /\ variant = "none"
  /\ running = h /\ pc[h] = "loop" /\ idx[h] < len[h]
  /\ idx' = [idx EXCEPT ![h] = @ + 1]
  /\ cur' = [cur EXCEPT ![h] = e]
  /\ IF IsWithdrawal(Payload[e])
       THEN DecodeFormatSend(h)
       ELSE Continue(h, "nomatch") /\ UNCHANGED <<attempts, failed>>
  /\ UNCHANGED <<variant, len, acks, processed, store, evicted, expired, overlapped,
                 sinceWrite, toKeep, input, decoded>>

\* one iteration of the for loop, in-process set variant
ExamineSet(h, e) ==
  /\ variant = "set"
  /\ running = h /\ pc[h] = "loop" /\ idx[h] < len[h]
  /\ idx' = [idx EXCEPT ![h] = @ + 1]
  /\ cur' = [cur EXCEPT ![h] = e]
  /\ IF SetHas(processed, Payload[e].signature)
       THEN /\ Continue(h, "duplicate")
            /\ UNCHANGED <<processed, attempts, failed>>
       ELSE /\ processed' = SetAdd(processed, Payload[e].signature)
            /\ IF IsWithdrawal(Payload[e])
                 THEN DecodeFormatSend(h)
                 ELSE Continue(h, "nomatch") /\ UNCHANGED <<attempts, failed>>
  /\ UNCHANGED <<variant, len, acks, store, evicted, expired, overlapped,
                 sinceWrite, toKeep, input, decoded>>

\* one iteration of the for loop, external store variant, up to await redis.get
ExamineRedis(h, e) ==
  /\ variant = "redis"
  /\ running = h /\ pc[h] = "loop" /\ idx[h] < len[h]
  /\ idx' = [idx EXCEPT ![h] = @ + 1]
  /\ cur' = [cur EXCEPT ![h] = e]
  /\ pc' = [pc EXCEPT ![h] = "get"]
  /\ outcome' = [outcome EXCEPT ![h] = "pending"]
  /\ running' = 0
  /\ UNCHANGED <<variant, len, acks, processed, store, attempts,
                 evicted, expired, overlapped, sinceWrite, toKeep, failed,
                 input, decoded>>

\* redis.get settles and the handler runs on to its next await: r = "ok" is
\* the store's answer, r = "error" a rejection (network, store down)
GetResults == {"ok", "error"}
GetReturn(h, r) ==
  /\ variant = "redis"
  /\ running = 0 /\ pc[h] = "get"
  /\ IF r = "error"
       THEN Raise(h, "get_error")
       ELSE IF RedisExists(store, Payload[cur[h]].signature)
              THEN Continue(h, "duplicate")
              ELSE /\ pc' = [pc EXCEPT ![h] = "set"]
                   /\ running' = 0
                   /\ outcome' = outcome
  /\ UNCHANGED <<variant, len, idx, cur, acks, processed, store, attempts,
                 evicted, expired, overlapped, sinceWrite, toKeep, failed,
                 input, decoded>>

\* redis.set settles: r = "ok" written and acknowledged, r = "lost" written but
\* the call rejects (reply lost), r = "error" not written and the call rejects
SetResults == {"ok", "lost", "error"}
\* (fault, relative to the source: the write made conditional on absence,
\* SET ... NX, and the handler giving the event up when the key is there)
SetReturnIfAbsent(h, r) ==
  /\ variant = "redis"
  /\ running = 0 /\ pc[h] = "set"
  /\ store' = IF r = "error" \/ RedisExists(store, Payload[cur[h]].signature)
               THEN store ELSE RedisSet(store, Payload[cur[h]].signature)
  /\ sinceWrite' = IF r = "error" \/ RedisExists(store, Payload[cur[h]].signature)
                    THEN sinceWrite
                    ELSE [sinceWrite EXCEPT ![Payload[cur[h]].signature] = 0]
  /\ cur' = cur
  /\ IF r # "ok"
       THEN Raise(h, "set_error") /\ UNCHANGED <<attempts, failed>>
       ELSE IF RedisExists(store, Payload[cur[h]].signature)
              THEN Continue(h, "duplicate") /\ UNCHANGED <<attempts, failed>>
              ELSE IF IsWithdrawal(Payload[cur[h]])
                     THEN DecodeFormatSend(h)
                     ELSE Continue(h, "nomatch") /\ UNCHANGED <<attempts, failed>>
  /\ UNCHANGED <<variant, len, idx, acks, processed, evicted, expired, overlapped,
                 toKeep, input, decoded>>
SetReturn(h, r) ==
  /\ variant = "redis"
  /\ running = 0 /\ pc[h] = "set"
  /\ store' = IF r = "error" THEN store ELSE RedisSet(store, Payload[cur[h]].signature)
  /\ sinceWrite' = IF r = "error" THEN sinceWrite
                    ELSE [sinceWrite EXCEPT ![Payload[cur[h]].signature] = 0]
  /\ cur' = cur
  /\ IF r # "ok"
       THEN Raise(h, "set_error") /\ UNCHANGED <<attempts, failed>>
       ELSE IF IsWithdrawal(Payload[cur[h]])
              THEN DecodeFormatSend(h)
              ELSE Continue(h, "nomatch") /\ UNCHANGED <<attempts, failed>>
  /\ UNCHANGED <<variant, len, idx, acks, processed, evicted, expired, overlapped,
                 toKeep, input, decoded>>

\* the fetch of sendTelegramMessage settles; the handler resumes after
\* await sendTelegramMessage(message)
SendReturn(h, o) ==
  /\ running = 0 /\ pc[h] = "send"
  /\ IF SendThrows(o) THEN Raise(h, "send_threw") ELSE Continue(h, SendLogs(o))
  /\ failed' = IF o = "ok" THEN failed ELSE WithFailure(failed, Payload[cur[h]].signature)
  /\ UNCHANGED <<variant, len, idx, cur, acks, processed, store, attempts,
                 evicted, expired, overlapped, sinceWrite, toKeep, input, decoded>>

\* the for loop is exhausted: the handler returns, after the acknowledgement
\* in the variants that acknowledge last
Finish(h) ==
  /\ running = h /\ pc[h] = "loop" /\ idx[h] = len[h]
  /\ acks' = IF AckFirst(variant) THEN acks ELSE [acks EXCEPT ![h] = @ + 1]
  /\ pc' = [pc EXCEPT ![h] = "done"]
  /\ cur' = [cur EXCEPT ![h] = NoEvent]
  /\ outcome' = [outcome EXCEPT ![h] = "none"]
  /\ running' = 0
  /\ UNCHANGED <<variant, len, idx, processed, store, attempts,
                 evicted, expired, overlapped, sinceWrite, toKeep, failed,
                 input, decoded>>

\* the setInterval callback of the in-process set variant, up to
\* processedTransactions.clear(); the callback keeps the thread.  With no
\* more than MAX_CACHE_SIZE signatures the callback does nothing.
\* (fault: the callback giving up the thread between clear() and the
\* re-fill, as an await there would)
TrimClearYielding ==
  /\ variant = "set"
  /\ running = 0
  /\ IF Len(processed) > MAX_CACHE_SIZE
       THEN /\ toKeep' = ToKeep(processed)
            /\ processed' = <<>>
            /\ running' = 0
            /\ evicted' = evicted \cup (Range(processed) \ Range(toKeep'))
       ELSE UNCHANGED <<toKeep, processed, running, evicted>>
  /\ UNCHANGED <<variant, pc, len, idx, cur, outcome, acks, store, attempts,
                 expired, overlapped, sinceWrite, failed, input, decoded>>
TrimClear ==
  /\ variant = "set"
  /\ running = 0
  /\ IF Len(processed) > MAX_CACHE_SIZE
       THEN /\ toKeep' = ToKeep(processed)
            /\ processed' = <<>>
            /\ running' = TimerThread
            /\ evicted' = evicted \cup (Range(processed) \ Range(toKeep'))
       ELSE UNCHANGED <<toKeep, processed, running, evicted>>
  /\ UNCHANGED <<variant, pc, len, idx, cur, outcome, acks, store, attempts,
                 expired, overlapped, sinceWrite, failed, input, decoded>>

\* the rest of the callback: toKeep.forEach(sig => processedTransactions.add(sig))
TrimRefill ==
  /\ variant = "set"
  /\ running = TimerThread
  /\ processed' = AddAll(processed, toKeep)
  /\ toKeep' = <<>>
  /\ running' = 0
  /\ UNCHANGED <<variant, pc, len, idx, cur, outcome, acks, store, attempts,
                 evicted, expired, overlapped, sinceWrite, failed, input, decoded>>

\* time passes at the external store; keys whose time to live is over expire
Tick ==
  /\ variant = "redis"
  /\ running = 0
  /\ store' = RedisAfter(store, TickSeconds)
  /\ expired' = expired \cup {s \in Sigs : store[s] > 0 /\ store'[s] = 0}
  /\ sinceWrite' = [s \in Sigs |-> IF sinceWrite[s] + TickSeconds < TTL_SECONDS
                                      THEN sinceWrite[s] + TickSeconds
                                      ELSE TTL_SECONDS]
  /\ UNCHANGED <<variant, running, pc, len, idx, cur, outcome, acks, processed,
                 attempts, evicted, overlapped, toKeep, failed, input, decoded>>

Next ==
  \/ \E h \in Requests, n \in 1..MaxBatch : Arrive(h, n)
  \/ \E h \in Requests, e \in Events : ExamineNone(h, e)
  \/ \E h \in Requests, e \in Events : ExamineSet(h, e)
  \/ \E h \in Requests, e \in Events : ExamineRedis(h, e)
  \/ \E h \in Requests, r \in GetResults : GetReturn(h, r)
  \/ \E h \in Requests, r \in SetResults : SetReturn(h, r)
  \/ \E h \in Requests, o \in SendOutcomes : SendReturn(h, o)
  \/ \E h \in Requests : Finish(h)
  \/ TrimClear
  \/ TrimRefill
  \/ Tick

Spec == Init /\ [][Next]_vars

\* ------------------------------------------------- the decoder on its own
\* decodeWebhookEvent applied to one event: every list of up to MaxTransfers
\* token transfers, and an event without the field
Transfers == {TransferUsdc, TransferWsol, TransferShort, TransferNoMint, TransferNamed}
SeqsUpTo(S, n) == UNION {[1..k -> S] : k \in 0..n}
DecodeInputs ==
  {[signature |-> "sig1", timestamp |-> 1700000000, fee |-> 5000000,
    type |-> WITHDRAW, tokenTransfers |-> ts] : ts \in SeqsUpTo(Transfers, MaxTransfers)}
  \cup {EventDescribed("sig2")}

InitDecode ==
  /\ variant = "none"
  /\ Quiet
  /\ input \in DecodeInputs
  /\ decoded = [state |-> "ready"]

\* the call returns the summary or throws
Decode ==
  /\ decoded.state = "ready"
  /\ decoded' = IF DecodeThrows(input)
                  THEN [state |-> "threw"]
                  ELSE [state |-> "returned", value |-> decodeWebhookEvent(input)]
  /\ UNCHANGED <<variant, running, pc, len, idx, cur, outcome, acks, processed,
                 store, attempts, evicted, expired, overlapped, sinceWrite, toKeep,
                 failed, input>>

NextDecode == Decode

SpecDecode == InitDecode /\ [][NextDecode]_vars


TypeOK ==
  /\ variant \in Variants
  /\ running \in {0, TimerThread} \cup Requests
  /\ \A h \in Requests : idx[h] <= len[h] /\ len[h] <= MaxBatch /\ acks[h] <= 1
  /\ Len(processed) <= Cardinality(Sigs)

\* ------------------------------------------------------------------ claims
SigOf(h) == Payload[cur[h]].signature
\* request h takes the next event of its batch in this step
Takes(h) == idx'[h] = idx[h] + 1
\* the await of request h at the given place settles in this step
Settles(h, place) == pc[h] = place /\ pc'[h] # place

\* C1: an event whose signature is in the store when the handler checks it is
\* skipped: no delivery attempt, the store unchanged, no exception from a
\* decode, and the handler is back at the head of its loop.
C1_DuplicateSkipped ==
  [][\A h \in Requests :
       /\ (variant = "set" /\ Takes(h) /\ Payload[cur'[h]].signature \in Range(processed))
            => /\ processed' = processed
               /\ attempts' = attempts
               /\ pc'[h] = "loop" /\ running' = h
       /\ (variant = "redis" /\ Settles(h, "get") /\ store[SigOf(h)] > 0)
            => /\ store' = store
               /\ attempts' = attempts
               /\ pc'[h] = "loop" /\ running' = h]_vars

\* a matching event that decode would reject has just been skipped as a
\* duplicate, its signature having been notified once before
C1_Witness ==
  \E h \in Requests :
    /\ pc[h] = "loop" /\ outcome[h] = "duplicate"
    /\ cur[h] = "nomint1"
    /\ attempts["sig1"] = 1

\* C2: with requests handled one after the other and no eviction or expiry of
\* the signature, a signature gets at most one delivery attempt (both dedup
\* variants).
C2_SequentialAtMostOnce ==
  \A s \in Sigs :
    (variant \in {"set", "redis"} /\ ~overlapped /\ s \notin evicted /\ s \notin expired)
      => attempts[s] <= 1

\* the second of two sequential requests has just skipped the matching event
\* the first one notified
C2_Witness ==
  /\ ~overlapped
  /\ pc[1] = "done" /\ pc[2] = "loop"
  /\ cur[2] = "withdraw1" /\ outcome[2] = "duplicate"
  /\ attempts["sig1"] = 1

\* C3 as stated: in the in-process set variant two requests that are in flight
\* together with the same matching signature both send.
C3_ConcurrentBothSend ==
  \A h1, h2 \in Requests :
    (/\ variant = "set" /\ h1 # h2
     /\ pc[h1] = "send" /\ cur[h1] = "withdraw1"
     /\ InFlight(h2) /\ cur[h2] = "withdraw1")
      => attempts["sig1"] >= 2

\* C3 amended: in the in-process set variant the check and the record of a
\* signature are one synchronous step, so a signature gets at most one
\* delivery attempt, requests overlapping or not, unless the trim evicted it.
C3_NoRaceInProcess ==
  \A s \in Sigs : (variant = "set" /\ s \notin evicted) => attempts[s] <= 1

\* two requests in flight together with the same matching event: one awaits
\* its delivery, the other has skipped the event
C3_Witness ==
  \E h1, h2 \in Requests :
    /\ variant = "set" /\ h1 # h2
    /\ pc[h1] = "send" /\ cur[h1] = "withdraw1"
    /\ pc[h2] = "loop" /\ cur[h2] = "withdraw1" /\ outcome[h2] = "duplicate"
    /\ attempts["sig1"] = 1

\* C4: in the external store variant the write is unconditional and the
\* handler that read "absent" goes on to deliver when its write is
\* acknowledged, also when another handler has written the key in between.
C4_WriteUnconditional ==
  [][\A h \in Requests :
       (/\ variant = "redis" /\ Settles(h, "set")
        /\ outcome'[h] # "set_error"
        /\ store[SigOf(h)] > 0
        /\ IsWithdrawal(Payload[cur[h]]) /\ ~DecodeThrows(Payload[cur[h]]))
         => /\ pc'[h] = "send"
            /\ attempts'[SigOf(h)] = attempts[SigOf(h)] + 1
            /\ store'[SigOf(h)] = TTL_SECONDS]_vars

\* two delivery attempts for one signature whose key never expired
C4_Witness ==
  /\ variant = "redis"
  /\ attempts["sig1"] = 2
  /\ "sig1" \notin expired
  /\ pc[1] = "send" /\ pc[2] = "send"

\* C5: a request whose handler has ended has been acknowledged exactly once.
C5_AlwaysAcknowledged ==
  \A h \in Requests : Terminated(h) => acks[h] = 1

\* C6: when the lookup of a matching event fails, the event is still
\* processed (the handler goes on to the record step and the delivery).
C6_LookupFailureStillProcessed ==
  [][\A h \in Requests :
       (/\ variant = "redis" /\ Settles(h, "get")
        /\ outcome'[h] = "get_error"
        /\ IsWithdrawal(Payload[cur[h]]))
         => pc'[h] = "set"]_vars

\* C7: in the external store variant a failed store access ends the handling
\* of that event only: the handler never rejects, after a failure it is at the
\* head of its loop with the rest of the batch ahead, and it returns only
\* with the whole batch taken and the request acknowledged.
C7_StoreFailureDoesNotAbort ==
  \A h \in Requests :
    variant = "redis" =>
      /\ pc[h] # "threw"
      /\ (outcome[h] \in {"get_error", "set_error"} => pc[h] = "loop" /\ running = h)
      /\ (pc[h] = "done" => idx[h] = len[h] /\ acks[h] = 1)

\* a store access has just failed on an event that is not the last of its batch
C7_Witness ==
  \E h \in Requests :
    /\ variant = "redis"
    /\ outcome[h] = "set_error"
    /\ idx[h] < len[h]

\* C8: when a delivery settles, however it ends, the handler is back at the
\* head of its loop at the same place of the batch; nothing is sent again and
\* the stores are as they were.
C8_DeliveryFailureAbsorbed ==
  [][\A h \in Requests :
       Settles(h, "send")
         => /\ pc'[h] = "loop" /\ running' = h
            /\ outcome'[h] \in {"sent", "send_failed"}
            /\ idx' = idx /\ len' = len
            /\ attempts' = attempts
            /\ processed' = processed /\ store' = store]_vars

\* a delivery has just failed on an event that is not the last of its batch
C8_Witness ==
  \E h \in Requests :
    /\ outcome[h] = "send_failed"
    /\ pc[h] = "loop" /\ idx[h] < len[h]

\* the record step of a non-matching event of request h, whose signature was
\* not in the store at its check, ends in this step
RecordsNonMatching(h) ==
  \/ /\ variant = "set" /\ Takes(h)
     /\ ~IsWithdrawal(Payload[cur'[h]])
     /\ Payload[cur'[h]].signature \notin Range(processed)
  \/ /\ variant = "redis" /\ Settles(h, "set")
     /\ ~IsWithdrawal(Payload[cur[h]])
\* the handling of such an event ends in this step, at the record step or at
\* a lookup that failed
EndsNonMatching(h) ==
  \/ RecordsNonMatching(h)
  \/ /\ variant = "redis" /\ Settles(h, "get")
     /\ store[SigOf(h)] = 0 /\ pc'[h] # "set"
     /\ ~IsWithdrawal(Payload[cur[h]])
IsRecorded(set, kv, s) ==
  IF variant = "set" THEN s \in Range(set) ELSE kv[s] > 0

\* C9 as stated: a non-matching event not yet in the store causes no delivery
\* attempt and its signature is in the store once it is handled.
C9_NonMatchingRecorded ==
  [][\A h \in Requests :
       RecordsNonMatching(h)
         => /\ attempts' = attempts
            /\ IsRecorded(processed', store', Payload[cur'[h]].signature)]_vars

\* C9 amended: no delivery attempt; the signature is recorded always in the
\* in-process variant, and in the external store variant when redis.get and
\* redis.set for it succeed, with the full time to live.
C9_NonMatchingRecordedIfStoreWorks ==
  [][\A h \in Requests :
       EndsNonMatching(h)
         => /\ attempts' = attempts
            /\ pc'[h] = "loop"
            /\ variant = "set" => Payload[cur'[h]].signature \in Range(processed')
            /\ (variant = "redis" /\ outcome'[h] = "nomatch")
                 => store'[SigOf(h)] = TTL_SECONDS]_vars

\* a non-matching event has just been recorded in the external store
C9_Witness ==
  \E h \in Requests :
    /\ variant = "redis"
    /\ cur[h] = "deposit1" /\ outcome[h] = "nomatch"
    /\ store["sig1"] = TTL_SECONDS
    /\ attempts["sig1"] = 0

\* C10: a run of the trim leaves a set of at most MAX_CACHE_SIZE signatures
\* as it is, and of a larger one the MAX_CACHE_SIZE latest, in their order:
\* those are what it sets aside before it clears the set, and what the set
\* holds when it has been filled again.
C10_TrimKeepsLatest ==
  [][/\ TrimClear =>
          IF Len(processed) <= MAX_CACHE_SIZE
            THEN processed' = processed /\ running' = 0
            ELSE toKeep' = SubSeq(processed, Len(processed) - MAX_CACHE_SIZE + 1,
                                  Len(processed))
     /\ TrimRefill => processed' = toKeep]_vars

\* the trim has discarded the oldest of three signatures
C10_Witness ==
  /\ variant = "set"
  /\ Len(processed) = MAX_CACHE_SIZE
  /\ evicted # {}
  /\ \A s \in evicted : s \notin Range(processed)

\* C11: the in-process set never holds more than MAX_CACHE_SIZE signatures,
\* however many distinct signatures arrive between two runs of the trim.
C11_SetSizeBounded == Len(processed) <= MAX_CACHE_SIZE

\* C12: a request takes its events one at a time and in batch order: the loop
\* moves on by one event, and only when the handling of the event before,
\* its awaited delivery attempt included, has ended; a delivery attempt is
\* made for the event the loop is at.
C12_InBatchOrder ==
  [][\A h \in Requests :
       /\ idx'[h] # idx[h]
            => /\ Takes(h)
               /\ pc[h] = "loop" /\ running = h
               /\ outcome[h] # "pending"
       /\ (pc'[h] = "send" /\ pc[h] # "send")
            => /\ pc[h] \in {"loop", "set"}
               /\ attempts' = [attempts EXCEPT ![Payload[cur'[h]].signature] = @ + 1]
       /\ (pc[h] = "send" /\ pc'[h] # "send")
            => idx'[h] = idx[h] /\ cur'[h] = cur[h] /\ outcome'[h] \in {"sent", "send_failed"}
       /\ (\A g \in Requests : ~(pc'[g] = "send" /\ pc[g] # "send"))
            => attempts' = attempts]_vars

\* the delivery for the second event of a batch is in flight after the
\* delivery for the first has ended
C12_Witness ==
  \E h \in Requests :
    /\ len[h] = 2 /\ idx[h] = 2 /\ pc[h] = "send"
    /\ cur[h] = "described2"
    /\ attempts["sig1"] = 1 /\ attempts["sig2"] = 1
    /\ \A g \in Requests : g # h => pc[g] = "idle"

\* C13 as stated: in every variant a request is acknowledged only when every
\* event of its batch has been handled.
C13_AckAfterProcessing ==
  \A h \in Requests : acks[h] > 0 => pc[h] = "done" /\ idx[h] = len[h]

\* C13, amended: the no-dedup and the external store variants acknowledge a
\* request exactly when every event of its batch has been handled; the
\* in-process set variant acknowledges it on arrival, before any event.
C13_AckAfterUnlessAckFirst ==
  \A h \in Requests :
    IF variant = "set"
      THEN acks[h] = 1 <=> pc[h] # "idle"
      ELSE /\ acks[h] = 1 <=> pc[h] = "done"
           /\ pc[h] = "done" => idx[h] = len[h]

\* the in-process set variant has acknowledged a request whose first
\* delivery is still in flight and whose second event is not yet taken
C13_Witness ==
  \E h \in Requests :
    /\ variant = "set"
    /\ acks[h] = 1
    /\ pc[h] = "send" /\ idx[h] = 1 /\ len[h] = 2

\* C14: in the no-dedup variant every withdrawal-matching event that a
\* request takes from its batch gets one delivery attempt for its signature,
\* so that the attempts for a signature count the matching events received.
C14_EveryMatchingNotified ==
  [][\A h \in Requests :
       (variant = "none" /\ Takes(h) /\ IsWithdrawal(Payload[cur'[h]]))
         => attempts' = [attempts EXCEPT ![Payload[cur'[h]].signature] = @ + 1]]_vars

\* C15: every record step of the external store variant leaves the key of
\* the signature with TTL_SECONDS (900) seconds to live; a lookup answered
\* less than TTL_SECONDS seconds after the last write of the key skips the
\* event as a duplicate with no delivery attempt, and a lookup answered
\* later (or for a key never written) goes on to the record step as for a
\* new event.
C15_FixedTtlWindow ==
  [][\A h \in Requests :
       /\ (Settles(h, "set") /\ outcome'[h] # "set_error")
            => /\ store'[SigOf(h)] = TTL_SECONDS
               /\ sinceWrite'[SigOf(h)] = 0
       /\ (Settles(h, "get") /\ outcome'[h] # "get_error")
            => IF sinceWrite[SigOf(h)] < TTL_SECONDS
                 THEN /\ outcome'[h] = "duplicate" /\ pc'[h] = "loop"
                      /\ attempts' = attempts /\ store' = store
                 ELSE pc'[h] = "set"]_vars

\* a signature whose key has expired has been notified a second time
C15_Witness ==
  /\ variant = "redis"
  /\ "sig1" \in expired
  /\ attempts["sig1"] = 2
  /\ store["sig1"] > 0

\* C16: in every variant, a request whose decoder has thrown on an event
\* that is not the last of its batch goes on with the batch: the handler is
\* not ended by the exception, so that the later events are still taken.
C16_DecodeFailureDoesNotAbort ==
  \A h \in Requests :
    (outcome[h] = "decode_threw" /\ idx[h] < len[h]) => pc[h] = "loop" /\ running = h

\* C17: whenever the decoder returns, the withdrawal detail of the summary is
\* null for an event with no transfers, and otherwise made of the first
\* transfer alone: its from, to, amount and mint, and as token the entry of
\* KNOWN_TOKENS for that mint or, when there is none, the first 8 characters
\* of the mint followed by "...".
C17_FirstTransferOnly ==
  decoded.state = "returned" =>
    LET ts == IF Has(input, "tokenTransfers") THEN input.tokenTransfers ELSE <<>>
        w  == decoded.value.withdrawal
    IN  IF Len(ts) = 0
          THEN w.isNull
          ELSE /\ ~w.isNull
               /\ w.from = FieldOr(ts[1], "fromUserAccount", "undefined")
               /\ w.to = FieldOr(ts[1], "toUserAccount", "undefined")
               /\ w.amount = FieldOr(ts[1], "tokenAmount", -1)
               /\ w.mint = ts[1].mint
               /\ w.token = IF ts[1].mint \in {USDC_MINT, PYUSD_MINT, KPUSD_USDC_MINT}
                              THEN KNOWN_TOKENS[ts[1].mint]
                              ELSE SubSeq(ts[1].mint, 1,
                                          IF Len(ts[1].mint) < 8 THEN Len(ts[1].mint) ELSE 8)
                                   \o <<".", ".", ".">>

\* C18: the trim is one uninterrupted stretch on the thread: it starts only
\* when no handler and no other trim holds the thread, and from its clear to
\* its re-fill nothing but the re-fill happens, so no handler step sees the
\* cleared set; a dedup check of a signature that the set holds, or that a
\* trim has set aside to keep, reports it present and skips the event.
C18_TrimAtomic ==
  [][/\ (toKeep # <<>>) <=> (running = TimerThread)
     /\ running = TimerThread
          => /\ processed = <<>>
             /\ processed' = toKeep /\ toKeep' = <<>> /\ running' = 0
             /\ pc' = pc /\ idx' = idx /\ cur' = cur /\ outcome' = outcome
     /\ running' = TimerThread => running = 0 /\ toKeep = <<>>
     /\ \A h \in Requests :
          (variant = "set" /\ Takes(h)
             /\ Payload[cur'[h]].signature \in Range(processed) \cup Range(toKeep))
            => /\ outcome'[h] = "duplicate"
               /\ attempts' = attempts
               /\ processed' = processed]_vars

\* a trim is between its clear and its re-fill while a request is suspended
\* at the delivery for a signature that the trim keeps
C18_Witness ==
  /\ running = TimerThread
  /\ processed = <<>>
  /\ \E h \in Requests : pc[h] = "send" /\ SigOf(h) \in Range(toKeep)

\* C19: in both dedup variants a delivery is attempted only for a signature
\* that is recorded by then, and a notification that fails (the delivery
\* fails, or the decoder throws after the record step) leaves the signature
\* recorded; every later dedup check of such a signature, while the store
\* still holds it, skips the event with no delivery attempt.  In the
\* in-process variant such a signature therefore has at most one attempt
\* for as long as the trim has not discarded it.
C19_FailedNeverRetried ==
  [][/\ \A h \in Requests :
          /\ (variant # "none" /\ pc'[h] = "send" /\ pc[h] # "send")
               => IsRecorded(processed', store', Payload[cur'[h]].signature)
          /\ (variant = "set" /\ Takes(h)
                /\ Payload[cur'[h]].signature \in failed
                /\ Payload[cur'[h]].signature \in Range(processed))
               => outcome'[h] = "duplicate" /\ attempts' = attempts
          /\ (variant = "redis" /\ Settles(h, "get") /\ outcome'[h] # "get_error"
                /\ SigOf(h) \in failed /\ store[SigOf(h)] > 0)
               => outcome'[h] = "duplicate" /\ attempts' = attempts
     /\ \A s \in failed' \ failed :
          s \notin evicted' \cup expired' => IsRecorded(processed', store', s)
     /\ \A s \in failed :
          (variant = "set" /\ s \notin evicted) => attempts[s] <= 1]_vars

\* the decoder threw on a matching event after its signature was recorded,
\* and a redelivery of the signature that decodes has been skipped: no
\* delivery was ever attempted for it
C19_Witness ==
  \E h \in Requests :
    /\ variant # "none"
    /\ "sig1" \in failed
    /\ cur[h] = "withdraw1" /\ outcome[h] = "duplicate"
    /\ attempts["sig1"] = 0

=============================================================================
